---- MODULE Spec2Model ----
(***************************************************************************)
(* A model of fastembed.go: the model artifact cache (retrieveModel,       *)
(* downloadFromGcs, untar), the construction and teardown of the shared    *)
(* onnxruntime environment (NewFlagEmbedding, Destroy), the per-chunk      *)
(* inference pipeline (onnxEmbed, encodingToInt32, getEmbeddings,          *)
(* normalize) and the concurrent batch scheduler (Embed, QueryEmbed,       *)
(* PassageEmbed).                                                          *)
(*                                                                         *)
(* Steps.  The code takes no lock, so a call is one step only up to its    *)
(* next access to what another thread can change: NewFlagEmbedding is a    *)
(* step for its test of the environment, one for the initialization, one   *)
(* for os.Stat, one for the GET, one for every call untar's loop makes     *)
(* (tarReader.Next, os.MkdirAll, os.Create, io.Copy: a file is there but   *)
(* incomplete from its os.Create to the end of its io.Copy) and one for    *)
(* the tokenizer file; the onnxEmbed call of QueryEmbed is a step for      *)
(* every stage that consults the environment, and reads the model file in  *)
(* the step that creates its session, never again.                         *)
(* Embed is called by one client thread only in the specifications here;   *)
(* while it waits in Embed nothing changes the environment or the file     *)
(* system under the onnxEmbed calls of its goroutines, so each of those    *)
(* calls is one step.                                                      *)
(*                                                                         *)
(* Representation.  A text is a sequence of words, so that string          *)
(* concatenation is sequence concatenation.  A float32 produced by         *)
(* normalize is kept exact as the pair (numerator, squared norm), which    *)
(* stands for  numerator / sqrt(squared norm) + epsilon.  Indices of Go    *)
(* slices are 0-based in the source and 1-based in the sequences here; the *)
(* loop variable i of Embed keeps its 0-based value.                       *)
(***************************************************************************)
EXTENDS Integers, Sequences, FiniteSets, TLC

(***************************************************************************)
(* Bounds of the model.                                                    *)
(***************************************************************************)
\* longest input list handed to Embed / PassageEmbed
MaxInputs == 3
\* largest batch size handed to Embed / PassageEmbed
MaxBatch == 2
\* the instance's maxLength (options.MaxLength), scaled down
MaxLength == 2
\* the hidden dimension (the literal 384 of onnxEmbed), scaled down
HiddenDim == 2

\* the batch size Embed falls back to
DefaultBatchSize == 512

\* a nil error
NoErr == [stage |-> "none", why |-> "", input |-> <<>>]
\* a nil slice (of vectors, or of float32)
NilSlice == <<>>

Min(a, b) == IF a < b THEN a ELSE b

RECURSIVE Reverse(_)
Reverse(s) == IF s = <<>> THEN <<>> ELSE Reverse(Tail(s)) \o <<Head(s)>>

(***************************************************************************)
(* Texts.                                                                  *)
(***************************************************************************)
Words == {"a", "b"}
QueryPrefix == <<"query: ">>
PassagePrefix == <<"passage: ">>
\* the texts a caller hands in: one word each
Texts == {<<w>> : w \in Words}

\* the tokenizer's vocabulary; id 0 is [PAD]
Vocab(w) ==
    CASE w = "a" -> 1
      [] w = "b" -> 2
      [] w = "query: " -> 3
      [] w = "passage: " -> 4
      [] OTHER -> 5

(***************************************************************************)
(* The tokenizer as NewFlagEmbedding configures it: truncation to          *)
(* maxLength, right padding to exactly maxLength with pad id 0.            *)
(***************************************************************************)
Encode(text, maxLength) ==
    LET kept == Min(Len(text), maxLength)
    IN [ids |-> [j \in 1..maxLength |-> IF j <= kept THEN Vocab(text[j]) ELSE 0],
        mask |-> [j \in 1..maxLength |-> IF j <= kept THEN 1 ELSE 0],
        typeIds |-> [j \in 1..maxLength |-> 0]]

EncodeBatch(input, maxLength) ==
    [n \in 1..Len(input) |-> Encode(input[n], maxLength)]

\* a run-time panic of Go, by the line that raised it; no panic
NoPanic == [line |-> 0, why |-> "", index |-> 0, length |-> 0]

IndexOutOfRange(line, index, length) ==
    [line |-> line, why |-> "index out of range", index |-> index, length |-> length]

\* encodingToInt32: the three outputs have the lengths of the three inputs,
\* elements widened one by one over the index range of inputA.  The loop
\* reads inputB[i] and then inputC[i] for every index i of inputA: the first
\* index that one of them lacks raises the panic, and nothing is returned.
encodingToInt32(inputA, inputB, inputC) ==
    IF Len(inputB) < Len(inputA) /\ Len(inputB) <= Len(inputC)
    THEN [outputA |-> <<>>, outputB |-> <<>>, outputC |-> <<>>,
          panic |-> IndexOutOfRange(368, Len(inputB), Len(inputB))]
    ELSE IF Len(inputC) < Len(inputA)
    THEN [outputA |-> <<>>, outputB |-> <<>>, outputC |-> <<>>,
          panic |-> IndexOutOfRange(369, Len(inputC), Len(inputC))]
    ELSE [outputA |-> [j \in 1..Len(inputA) |-> inputA[j]],
          outputB |-> [j \in 1..Len(inputB) |-> IF j <= Len(inputA) THEN inputB[j] ELSE 0],
          outputC |-> [j \in 1..Len(inputC) |-> IF j <= Len(inputA) THEN inputC[j] ELSE 0],
          panic |-> NoPanic]

\* the panic of the first conversion of lines 140-145 that raises one
ConvertPanic(encodings) ==
    LET bad == {n \in 1..Len(encodings) :
                  encodingToInt32(encodings[n].ids, encodings[n].mask,
                                  encodings[n].typeIds).panic # NoPanic}
        first == CHOOSE n \in bad : \A m \in bad : n <= m
    IN IF bad = {} THEN NoPanic
       ELSE encodingToInt32(encodings[first].ids, encodings[first].mask,
                            encodings[first].typeIds).panic

\* the flattening loop of onnxEmbed: the converted arrays of the encodings
\* appended in order (split in halves to keep the recursion shallow)
RECURSIVE Flatten(_, _)
Flatten(encodings, which) ==
    IF encodings = <<>> THEN <<>>
    ELSE IF Len(encodings) = 1
    THEN LET e == encodings[1]
             c == encodingToInt32(e.ids, e.mask, e.typeIds)
         IN CASE which = "ids" -> c.outputA
              [] which = "mask" -> c.outputB
              [] OTHER -> c.outputC
    ELSE LET half == Len(encodings) \div 2
         IN Flatten(SubSeq(encodings, 1, half), which)
            \o Flatten(SubSeq(encodings, half + 1, Len(encodings)), which)

(***************************************************************************)
(* The forward pass of the inference engine: a deterministic function of   *)
(* the three input tensors, giving a buffer of shape [n, L, H].  The       *)
(* hidden state of every position depends on the whole sequence.           *)
(***************************************************************************)
RECURSIVE WeightedSum(_, _, _)
WeightedSum(ids, mask, j) ==
    IF j > Len(ids) THEN 0
    ELSE j * ids[j] * mask[j] + WeightedSum(ids, mask, j + 1)

Forward(idsFlat, maskFlat, n, L, H) ==
    [p \in 1..(n * L * H) |->
        LET q == p - 1
            seqNo == q \div (L * H)
            t == (q \div H) % L
            k == q % H
            ids == SubSeq(idsFlat, seqNo * L + 1, (seqNo + 1) * L)
            mask == SubSeq(maskFlat, seqNo * L + 1, (seqNo + 1) * L)
        IN 10 * WeightedSum(ids, mask, 1) + 3 * t + k + 1]

(***************************************************************************)
(* normalize and getEmbeddings.                                            *)
(***************************************************************************)
RECURSIVE SumSquares(_)
SumSquares(v) == IF v = <<>> THEN 0 ELSE Head(v) * Head(v) + SumSquares(Tail(v))

\* normalized[i] = val / sqrt(norm) + epsilon, kept as (val, norm)
normalize(v) ==
    LET norm == SumSquares(v)
    IN [j \in 1..Len(v) |-> <<v[j], norm>>]

\* data[startIndex:endIndex] of a Go slice
Slice(data, startIndex, endIndex) == SubSeq(data, startIndex + 1, endIndex)

getEmbeddingsBadStride(data, dimensions) ==
    LET x == dimensions[1]
        z == dimensions[3]
    IN [n \in 1..x |-> normalize(Slice(data, (n - 1) * z, (n - 1) * z + z))]

getEmbeddings(data, dimensions) ==
    LET x == dimensions[1]
        y == dimensions[2]
        z == dimensions[3]
    IN [n \in 1..x |->
          LET startIndex == (n - 1) * y * z
              endIndex == startIndex + z
          IN normalize(Slice(data, startIndex, endIndex))]

(***************************************************************************)
(* Paths are sequences of components, relative to the working directory.   *)
(***************************************************************************)
DefaultCacheDir == <<"local_cache">>
AllMiniLML6V2 == "fast-all-MiniLM-L6-v2"
BGEBaseEN == "fast-bge-base-en"
BGESmallEN == "fast-bge-small-en"
\* the models of lines 26-28
Models == {AllMiniLML6V2, BGEBaseEN, BGESmallEN}
\* the hidden size of a model's published network, the last dimension of
\* what its forward pass computes: 384 for all-MiniLM-L6-v2 and for
\* bge-small-en, 768 for bge-base-en (in units of the scaled-down literal).
\* It is a property of the artifact; the code never asks for it.
ModelHiddenDim(model) == IF model = BGEBaseEN THEN 2 * HiddenDim ELSE HiddenDim
TokenizerFile == "tokenizer.json"
ModelFile == "model_optimized.onnx"

(***************************************************************************)
(* State.                                                                  *)
(***************************************************************************)
VARIABLES
    ortEnv,      \* ort.IsInitialized(): the process-wide inference environment
    envInits,    \* InitializeEnvironment calls that built an environment since the last teardown
    fs,          \* the file system: what is at each path that exists
    ctor,        \* per client thread: the NewFlagEmbedding call it is in
    inst,        \* per client thread: the *FlagEmbedding it holds, or NoInst
    last,        \* the latest retrieveModel call and its outcome
    prev,        \* the retrieveModel call before that
    oracle,      \* which inputs the tokenizer / engine fails on, and where
    workload,    \* the longest list the client program embeds
    pc,          \* where the Embed call in progress stands: idle, loop, wait
    op,          \* the Embed / PassageEmbed / QueryEmbed call: arguments
    i,           \* Embed's loop variable
    tasks,       \* Embed's goroutines, keyed by their argument i
    embeddings,  \* Embed's result container
    errorCh,     \* Embed's buffered error channel
    wg,          \* Embed's WaitGroup counter
    overtook,    \* for the record: a goroutine finished before one launched earlier
    io,          \* network and file accesses of the call in progress or just returned
    ret,         \* what the latest call returned
    queryCall,   \* per client thread: the QueryEmbed call it is in
    proc         \* the process: running, or ended by a panic or a fault

vars == <<ortEnv, envInits, fs, ctor, inst, last, prev, oracle, workload, pc, op, i, tasks,
          embeddings, errorCh, wg, overtook, io, ret, queryCall, proc>>

embedVars == <<pc, op, i, tasks, embeddings, errorCh, wg, overtook>>
worldVars == <<ortEnv, envInits, fs, last, prev, oracle, workload>>

Threads == {1, 2}

(***************************************************************************)
(* onnxEmbed.  Stages in the order the code reaches them; every NewTensor  *)
(* and the session are followed by a deferred Destroy, run in reverse      *)
(* order when the function returns.                                        *)
(***************************************************************************)
Stages == <<"tokenize", "inputTensorID", "inputTensorMask", "inputTensorType",
            "outputTensor", "session", "run">>
StageSet == {Stages[s] : s \in 1..Len(Stages)}

\* what a call of onnxEmbed finds: the environment as it is when the call
\* reaches each stage, the file system, the inputs the tokenizer or the
\* engine rejects, and what a session does when it is run after the
\* environment under it has been destroyed
TornRuns == {"fails", "runs", "faults"}

World == [env |-> [s \in StageSet |-> ortEnv], fs |-> fs, oracle |-> oracle,
          torn |-> "fails"]

\* the stage at which the tokenizer or the engine rejects this chunk
Rejects(w, input, stage) ==
    /\ w.oracle.stage = stage
    /\ \E n \in 1..Len(input) : \E j \in 1..Len(input[n]) : input[n][j] = w.oracle.bad

Err(stage, why, input) == [stage |-> stage, why |-> why, input |-> input]

\* ort.NewTensor / ort.NewEmptyTensor: refuse without an environment, or a
\* data length that is not the product of the shape
TensorError(w, input, stage, shape, dataLen) ==
    IF ~w.env[stage] THEN Err(stage, "NotInitialized", input)
    ELSE IF dataLen # shape[1] * shape[2] THEN Err(stage, "ShapeMismatch", input)
    ELSE IF Rejects(w, input, stage) THEN Err(stage, "Rejected", input)
    ELSE NoErr

\* ort.NewAdvancedSession(onnxFilePath, ...) loads the model from its file
SessionReadsAndFetches(f) ==
    {<<"read", f.modelPath \o <<ModelFile>>>>, <<"net", <<f.model>>>>}

SessionReads(f) == {<<"read", f.modelPath \o <<ModelFile>>>>}

\* a return of onnxEmbed: the deferred Destroy calls run last-in first-out
ReturnLeakOnError(out, err, defers, reads, shapes) ==
    [out |-> out, err |-> err, acquired |-> defers,
     released |-> IF err # NoErr THEN <<>> ELSE Reverse(defers),
     reads |-> reads, shapes |-> shapes, panic |-> NoPanic]

Return(out, err, defers, reads, shapes) ==
    [out |-> out, err |-> err, acquired |-> defers, released |-> Reverse(defers),
     reads |-> reads, shapes |-> shapes, panic |-> NoPanic]

\* onnxEmbed does not return: a panic unwinds it, running the deferred
\* Destroy calls, and a fault inside the engine ends the process at once
Unwind(panic, stage, input, defers, released, reads, shapes) ==
    [out |-> NilSlice, err |-> Err(stage, "panic", input), acquired |-> defers,
     released |-> released, reads |-> reads, shapes |-> shapes, panic |-> panic]

EngineFault == [line |-> 191, why |-> "fault in the engine", index |-> 0, length |-> 0]

onnxEmbed(f, input, w) ==
    IF Rejects(w, input, "tokenize")
    THEN Return(NilSlice, Err("tokenize", "Rejected", input), <<>>, {}, <<>>)
    ELSE IF ConvertPanic(EncodeBatch(input, f.maxLength)) # NoPanic
    THEN Unwind(ConvertPanic(EncodeBatch(input, f.maxLength)), "convert", input,
                <<>>, <<>>, {}, <<>>)
    ELSE
    LET encodings == EncodeBatch(input, f.maxLength)
        inputIdsFlat == Flatten(encodings, "ids")
        inputMaskFlat == Flatten(encodings, "mask")
        inputTypeIdsFlat == Flatten(encodings, "typeIds")
        inputShape == <<Len(input), f.maxLength>>
        outputShape == <<Len(input), f.maxLength, HiddenDim>>
        shapes == [ids |-> [shape |-> inputShape, len |-> Len(inputIdsFlat)],
                   mask |-> [shape |-> inputShape, len |-> Len(inputMaskFlat)],
                   typeIds |-> [shape |-> inputShape, len |-> Len(inputTypeIdsFlat)],
                   output |-> [shape |-> outputShape,
                               len |-> outputShape[1] * outputShape[2] * outputShape[3]]]
        e1 == TensorError(w, input, "inputTensorID", inputShape, Len(inputIdsFlat))
        e2 == TensorError(w, input, "inputTensorMask", inputShape, Len(inputMaskFlat))
        e3 == TensorError(w, input, "inputTensorType", inputShape, Len(inputTypeIdsFlat))
        e4 == IF ~w.env["outputTensor"] THEN Err("outputTensor", "NotInitialized", input)
              ELSE IF Rejects(w, input, "outputTensor")
                   THEN Err("outputTensor", "Rejected", input)
              ELSE NoErr
        onnxPath == f.modelPath \o <<ModelFile>>
        e5 == IF ~w.env["session"] THEN Err("session", "NotInitialized", input)
              ELSE IF onnxPath \notin DOMAIN w.fs
                   THEN Err("session", "NoModelFile", input)
              ELSE IF w.fs[onnxPath] # "file" THEN Err("session", "BadModelFile", input)
              ELSE IF Rejects(w, input, "session") THEN Err("session", "Rejected", input)
              ELSE NoErr
        \* session.Run writes the network's output into outputTensor, and
        \* fails when it does not have the shape of the tensor
        e6 == IF ~w.env["run"] /\ w.torn = "fails"
              THEN Err("run", "NotInitialized", input)
              ELSE IF ModelHiddenDim(f.model) # outputShape[3]
                   THEN Err("run", "ShapeMismatch", input)
              ELSE IF Rejects(w, input, "run") THEN Err("run", "Rejected", input)
              ELSE NoErr
        data == Forward(inputIdsFlat, inputMaskFlat, Len(input), f.maxLength,
                        ModelHiddenDim(f.model))
        tensors == <<"inputTensorID", "inputTensorMask", "inputTensorType", "outputTensor">>
        sessionReads == IF w.env["session"] THEN SessionReads(f) ELSE {}
    IN  IF e1 # NoErr THEN Return(NilSlice, e1, <<>>, {}, shapes)
        ELSE IF e2 # NoErr THEN Return(NilSlice, e2, SubSeq(tensors, 1, 1), {}, shapes)
        ELSE IF e3 # NoErr THEN Return(NilSlice, e3, SubSeq(tensors, 1, 2), {}, shapes)
        ELSE IF e4 # NoErr THEN Return(NilSlice, e4, SubSeq(tensors, 1, 3), {}, shapes)
        ELSE IF e5 # NoErr THEN Return(NilSlice, e5, tensors, sessionReads, shapes)
        ELSE IF ~w.env["run"] /\ w.torn = "faults"
             THEN Unwind(EngineFault, "run", input, tensors \o <<"session">>, <<>>,
                         SessionReads(f), shapes)
        ELSE IF e6 # NoErr
             THEN Return(NilSlice, e6, tensors \o <<"session">>, SessionReads(f), shapes)
        ELSE Return(getEmbeddings(data, outputShape), NoErr, tensors \o <<"session">>,
                    SessionReads(f), shapes)

(***************************************************************************)
(* Embed: the batch scheduler.                                             *)
(***************************************************************************)
NoInst == [model |-> "", maxLength |-> 0, modelPath |-> <<>>]
NoOp == [name |-> "none", caller |-> 0, original |-> <<>>, callerInput |-> <<>>,
         input |-> <<>>, batchSize |-> 0, chunkSize |-> 0]
NoRet == [op |-> "none", out |-> NilSlice, err |-> NoErr]
NoTasks == <<>>

SeqsUpTo(S, n) == UNION {[1..k -> S] : k \in 0..n}
BatchSizes == (0 - 1)..MaxBatch

\* lines 200-202
ChunkSizeNoDefault(batchSize) == IF batchSize <= 0 THEN 1 ELSE batchSize

ChunkSize(batchSize) == IF batchSize <= 0 THEN DefaultBatchSize ELSE batchSize

\* lines 212-215
ChunkEndOverlap(start, batchSize, n) == n

ChunkEnd(start, batchSize, n) ==
    IF start + batchSize > n THEN n ELSE start + batchSize

\* copy(dst[lo:hi], src): min(hi - lo, len(src)) elements, from the front
CopyIntoFront(dst, lo, hi, src) ==
    [j \in 1..Len(dst) |->
        IF j <= Min(hi - lo, Len(src)) THEN src[j] ELSE dst[j]]

CopyInto(dst, lo, hi, src) ==
    [j \in 1..Len(dst) |->
        IF lo < j /\ j <= lo + Min(hi - lo, Len(src)) THEN src[j - lo] ELSE dst[j]]

\* the slots of dst that copy(dst[lo:hi], src) assigns
WrittenSlots(dst, lo, hi, src) ==
    LET marked == CopyInto([j \in 1..Len(dst) |-> "kept"], lo, hi,
                           [k \in 1..Len(src) |-> "written"])
    IN {j \in 1..Len(dst) : marked[j] = "written"}

\* a QueryEmbed call of a thread: the stage its onnxEmbed call is about to
\* enter, the text, how it found the environment at the stages behind it
\* and the model's file when it created the session, whether the
\* environment its session was created in has been destroyed since,
\* and when it is over the error it returned and the tensors and session
\* it acquired and released
NoQuery == [pc |-> "idle", input |-> <<>>, env |-> [s \in StageSet |-> TRUE],
            files |-> <<>>, orphan |-> FALSE,
            err |-> NoErr, res |-> << <<>>, <<>> >>]

\* the locals of a returned Embed are gone when the next call begins, and so
\* are those of the caller's returned QueryEmbed
ResetEmbed ==
    IF pc = "idle"
    THEN /\ op' = NoOp
         /\ i' = 0
         /\ tasks' = NoTasks
         /\ embeddings' = <<>>
         /\ errorCh' = <<>>
         /\ wg' = 0
         /\ overtook' = FALSE
         /\ pc' = pc
    ELSE UNCHANGED <<pc, op, i, tasks, embeddings, errorCh, wg, overtook>>

\* lines 199-205: the call, up to the loop
BeginEmbed(t, name, original, callerInput, input, batchSize) ==
    /\ proc = "running"
    /\ pc = "idle"
    /\ inst[t] # NoInst
    /\ ctor[t].pc = "idle"
    /\ queryCall[t].pc = "idle"
    /\ op' = [name |-> name, caller |-> t, original |-> original,
              callerInput |-> callerInput, input |-> input,
              batchSize |-> batchSize, chunkSize |-> ChunkSize(batchSize)]
    /\ embeddings' = [j \in 1..Len(input) |-> NilSlice]
    /\ wg' = 0
    /\ overtook' = FALSE
    /\ errorCh' = <<>>
    /\ i' = 0
    /\ tasks' = NoTasks
    /\ io' = {}
    /\ ret' = NoRet
    /\ pc' = "loop"
    /\ queryCall' = [queryCall EXCEPT ![t] = NoQuery]
    /\ UNCHANGED <<proc, worldVars, ctor, inst>>

\* a list one longer than the default batch size, which the default splits;
\* its last text is longer than maxLength, which the tokenizer truncates
LongText == [j \in 1..(MaxLength + 1) |-> IF j % 2 = 1 THEN "b" ELSE "a"]
LongInput ==
    [j \in 1..(DefaultBatchSize + 1) |-> IF j <= DefaultBatchSize THEN <<"a">> ELSE LongText]

\* the calls of Embed a client makes: any list up to its workload with any
\* batch size, a prefixed queryCall, and under the full workload the long list
\* with no batch size given
EmbedCalls ==
    ((SeqsUpTo(Texts, workload) \cup {<<QueryPrefix \o text>> : text \in Texts})
        \X BatchSizes)
    \cup (IF workload >= MaxInputs THEN {LongInput} \X {0 - 1, 0} ELSE {})

EmbedCall(t) ==
    \E call \in EmbedCalls :
        BeginEmbed(t, "Embed", call[1], call[1], call[1], call[2])

\* a goroutine of Embed: where it stands, what onnxEmbed returned to it, and
\* for the record its position on the error channel (sentAt) and the slots
\* of the container it has assigned (wrote)
NewTask == [pc |-> "start", batchOut |-> NilSlice, err |-> NoErr, end |-> 0,
            res |-> <<>>, sentAt |-> 0, wrote |-> {}]

\* lines 208-209, 226: one iteration of the loop launches one goroutine
EmbedLaunch ==
    /\ proc = "running"
    /\ pc = "loop"
    /\ i < Len(op.input)
    /\ wg' = wg + 1
    /\ tasks' = (i :> NewTask) @@ tasks
    /\ i' = i + op.chunkSize
    /\ UNCHANGED <<queryCall, proc, worldVars, ctor, inst, pc, op, embeddings, errorCh, io, ret, overtook>>

\* line 208: the loop condition fails; line 227 is reached
EmbedLoopExit ==
    /\ proc = "running"
    /\ pc = "loop"
    /\ ~(i < Len(op.input))
    /\ pc' = "wait"
    /\ UNCHANGED <<queryCall, proc, worldVars, ctor, inst, op, i, tasks, embeddings, errorCh, wg, io, ret, overtook>>

\* lines 212-216: the goroutine's call of onnxEmbed on input[i:end]; a panic
\* in a goroutine ends the process
TaskRun(c) ==
    /\ proc = "running"
    /\ c \in DOMAIN tasks
    /\ tasks[c].pc = "start"
    /\ \E end \in {ChunkEnd(c, op.chunkSize, Len(op.input))} :
       \E r \in {onnxEmbed(inst[op.caller], Slice(op.input, c, end), World)} :
          /\ tasks' = [tasks EXCEPT ![c] =
                         [NewTask EXCEPT !.pc = "ran", !.batchOut = r.out, !.err = r.err,
                                         !.end = end,
                                         !.res = <<r.acquired, r.released>>]]
          /\ io' = io \cup r.reads
          /\ proc' = IF r.panic # NoPanic THEN "ended" ELSE proc
    /\ UNCHANGED <<queryCall, worldVars, ctor, inst, pc, op, i, embeddings, errorCh, wg, ret,
                   overtook>>

\* line 205: the capacity of errorCh
ErrorChCapUnbuffered(input) == Min(0, Len(input))

ErrorChCap(input) == Len(input)

\* lines 217-219: errorCh <- err, which blocks while the buffer is full
TaskSend(c) ==
    /\ proc = "running"
    /\ c \in DOMAIN tasks
    /\ tasks[c].pc = "ran"
    /\ tasks[c].err # NoErr
    /\ Len(errorCh) < ErrorChCap(op.input)
    /\ errorCh' = Append(errorCh, tasks[c].err)
    /\ tasks' = [tasks EXCEPT ![c].pc = "sent", ![c].sentAt = Len(errorCh) + 1]
    /\ UNCHANGED <<queryCall, proc, worldVars, ctor, inst, pc, op, i, embeddings, wg, io, ret, overtook>>

\* lines 223 and 211: copy into embeddings[i:end], then the deferred wg.Done()
TaskCopy(c) ==
    /\ proc = "running"
    /\ c \in DOMAIN tasks
    /\ \/ tasks[c].pc = "ran" /\ tasks[c].err = NoErr
       \/ tasks[c].pc = "sent"
    /\ embeddings' = CopyInto(embeddings, c, tasks[c].end, tasks[c].batchOut)
    /\ wg' = wg - 1
    /\ tasks' = [tasks EXCEPT ![c].pc = "done",
                             ![c].wrote = WrittenSlots(embeddings, c, tasks[c].end,
                                                       tasks[c].batchOut)]
    /\ overtook' = (overtook \/ \E d \in DOMAIN tasks : d < c /\ tasks[d].pc # "done")
    /\ UNCHANGED <<queryCall, proc, worldVars, ctor, inst, pc, op, i, errorCh, io, ret>>

\* lines 231-234, given the channel's content
EmbedResultKeepPartial(name, ch, emb) ==
    IF Len(ch) > 0
    THEN [op |-> name, out |-> emb, err |-> Head(ch)]
    ELSE [op |-> name, out |-> emb, err |-> NoErr]

EmbedResult(name, ch, emb) ==
    IF Len(ch) > 0
    THEN [op |-> name, out |-> NilSlice, err |-> Head(ch)]
    ELSE [op |-> name, out |-> emb, err |-> NoErr]

\* line 227: wg.Wait() returns when the counter is zero
WaitForFirst(counter, launched) == counter < launched \/ counter = 0

Wait(counter, launched) == counter = 0

\* lines 227-234: wg.Wait() returns, the channel is closed and inspected
EmbedReturn ==
    /\ proc = "running"
    /\ pc = "wait"
    /\ Wait(wg, Cardinality(DOMAIN tasks))
    /\ ret' = EmbedResult(op.name, errorCh, embeddings)
    /\ errorCh' = IF Len(errorCh) > 0 THEN Tail(errorCh) ELSE errorCh
    /\ pc' = "idle"
    /\ UNCHANGED <<queryCall, proc, worldVars, ctor, inst, op, i, tasks, embeddings, wg, io, overtook>>

\* lines 237-244
QueryEmbedResultNoPrefix(f, input, w) ==
    LET r == onnxEmbed(f, <<input>>, w)
    IN IF r.err # NoErr
       THEN [op |-> "QueryEmbed", out |-> NilSlice, err |-> r.err]
       ELSE [op |-> "QueryEmbed", out |-> r.out[1], err |-> NoErr]

QueryEmbedResult(f, input, w) ==
    LET query == QueryPrefix \o input
        r == onnxEmbed(f, <<query>>, w)
    IN IF r.err # NoErr
       THEN [op |-> "QueryEmbed", out |-> NilSlice, err |-> r.err]
       ELSE [op |-> "QueryEmbed", out |-> r.out[1], err |-> NoErr]

StageNo(stage) == CHOOSE k \in 1..Len(Stages) : Stages[k] = stage

\* the call that has reached `stage` ends there: with the error of that
\* stage or a panic before the next one, or having run the session
EndsAt(r, stage) ==
    \/ stage = "run"
    \/ r.panic # NoPanic
    \/ r.err # NoErr /\ (r.err.stage \in StageSet => StageNo(r.err.stage) <= StageNo(stage))

\* lines 238-239: the call, up to the tokenizer
QueryEmbed(t) ==
    /\ proc = "running"
    /\ pc = "idle"
    /\ inst[t] # NoInst
    /\ ctor[t].pc = "idle"
    /\ queryCall[t].pc = "idle"
    /\ \E input \in Texts :
         /\ queryCall' = [queryCall EXCEPT ![t] =
                        [NoQuery EXCEPT !.pc = "tokenize", !.input = input]]
         /\ op' = [NoOp EXCEPT !.name = "QueryEmbed", !.caller = t,
                               !.original = input, !.callerInput = input,
                               !.input = <<QueryPrefix \o input>>]
    /\ ret' = NoRet
    /\ io' = {}
    /\ i' = 0
    /\ tasks' = NoTasks
    /\ embeddings' = <<>>
    /\ errorCh' = <<>>
    /\ wg' = 0
    /\ overtook' = FALSE
    /\ UNCHANGED <<proc, worldVars, ctor, inst, pc>>

\* what ort.NewAdvancedSession reads of the file system: the model's file
ModelFileOf(files, f) ==
    [p \in {f.modelPath \o <<ModelFile>>} \cap DOMAIN files |-> files[p]]

\* lines 239-243, 128-196: the onnxEmbed call of QueryEmbed goes through one
\* stage, finding the environment as it is now, and returns when that stage
\* fails or was the last.  The model's file is read at the stage that
\* creates the session, and not again when the session is run; the session
\* is run in the environment it was created in, which is gone once any
\* Destroy has run since, also when a new one has been built.  No lock
\* keeps another thread's Destroy or NewFlagEmbedding from acting between
\* two stages.
QueryStage(t) ==
    /\ proc = "running"
    /\ queryCall[t].pc \in StageSet
    /\ \E torn \in (IF queryCall[t].pc = "run" /\ (~ortEnv \/ queryCall[t].orphan)
                    THEN TornRuns ELSE {"fails"}) :
         LET stage == queryCall[t].pc
             seen == [queryCall[t].env EXCEPT
                        ![stage] = ortEnv /\ ~(stage = "run" /\ queryCall[t].orphan)]
             read == IF stage = "run" THEN queryCall[t].files ELSE ModelFileOf(fs, inst[t])
             w == [World EXCEPT !.env = seen, !.fs = read, !.torn = torn]
             r == onnxEmbed(inst[t], <<QueryPrefix \o queryCall[t].input>>, w)
         IN IF EndsAt(r, stage)
            THEN /\ queryCall' = [queryCall EXCEPT ![t] =
                                [NoQuery EXCEPT !.input = queryCall[t].input,
                                                !.err = r.err,
                                                !.res = <<r.acquired, r.released>>]]
                 /\ ret' = IF r.panic # NoPanic
                           THEN [op |-> "panic", out |-> NilSlice, err |-> r.err]
                           ELSE QueryEmbedResult(inst[t], queryCall[t].input, w)
                 /\ io' = io \cup r.reads
                 /\ proc' = IF r.panic # NoPanic THEN "ended" ELSE proc
            ELSE /\ queryCall' = [queryCall EXCEPT ![t].pc = Stages[StageNo(stage) + 1],
                                           ![t].env = seen,
                                           ![t].files = IF stage = "session" THEN read
                                                        ELSE queryCall[t].files]
                 /\ io' = io \cup (IF stage = "session" THEN r.reads ELSE {})
                 /\ UNCHANGED <<ret, proc>>
    /\ UNCHANGED <<worldVars, ctor, inst, embedVars>>

\* lines 247-250: the list handed to Embed, and the caller's list afterwards
PassagePrepareInPlace(input) ==
    [processedInput |-> [j \in 1..Len(input) |-> PassagePrefix \o input[j]],
     input |-> [j \in 1..Len(input) |-> PassagePrefix \o input[j]]]

PassagePrepare(input) ==
    [processedInput |-> [j \in 1..Len(input) |-> PassagePrefix \o input[j]],
     input |-> input]

\* lines 246-252
PassageEmbedCall(t) ==
    \E input \in SeqsUpTo(Texts, workload) :
      \E batchSize \in BatchSizes :
        LET p == PassagePrepare(input)
        IN BeginEmbed(t, "PassageEmbed", input, p.input, p.processedInput, batchSize)

(***************************************************************************)
(* The artifact cache: paths, the archive, untar, downloadFromGcs and       *)
(* retrieveModel.                                                          *)
(***************************************************************************)
\* filepath.Clean on components: "." is dropped, ".." removes its parent
RECURSIVE CleanAcc(_, _)
CleanAcc(rest, acc) ==
    IF rest = <<>> THEN acc
    ELSE IF Head(rest) = "." THEN CleanAcc(Tail(rest), acc)
    ELSE IF Head(rest) = ".." /\ acc # <<>> /\ acc[Len(acc)] # ".."
         THEN CleanAcc(Tail(rest), SubSeq(acc, 1, Len(acc) - 1))
    ELSE CleanAcc(Tail(rest), Append(acc, Head(rest)))

\* filepath.Join
Join(a, b) == CleanAcc(a \o b, <<>>)

\* filepath.Dir
Dir(path) == SubSeq(path, 1, Len(path) - 1)

\* The file system maps every path that exists to what is there: "dir", a
\* directory; "file", a file with its whole content; "partial", a file whose
\* content was cut short.
NoFiles == <<>>

\* os.MkdirAll: the directory and every parent of it that is not there yet
MkdirAll(files, path) ==
    LET made == {SubSeq(path, 1, k) : k \in 1..Len(path)}
    IN [p \in DOMAIN files \cup made |-> IF p \in DOMAIN files THEN files[p] ELSE "dir"]

\* os.Create and io.Copy: the file is created, or emptied if it was there,
\* and holds what was copied
Create(files, path, content) ==
    [p \in DOMAIN files \cup {path} |-> IF p = path THEN content ELSE files[p]]

\* the archive the server holds for a model
GoodArchive(model) ==
    << [name |-> <<model>>, type |-> "dir"],
       [name |-> <<model, TokenizerFile>>, type |-> "reg"],
       [name |-> <<model, ModelFile>>, type |-> "reg"] >>

\* archives a server may hold instead: one with a symbolic link next to the
\* model's files, one with a file whose name leads out of the target, and one
\* with a file beside the model's directory
LinkArchive(model) ==
    GoodArchive(model) \o << [name |-> <<model, "vocab.txt">>, type |-> "symlink"] >>

SlipArchive(model) ==
    << [name |-> <<"..", "escape">>, type |-> "reg"] >> \o GoodArchive(model)

FlatArchive(model) ==
    << [name |-> <<"README.md">>, type |-> "reg"] >> \o GoodArchive(model)

Archives(model) ==
    {GoodArchive(model), LinkArchive(model), SlipArchive(model), FlatArchive(model)}

\* What goes wrong in one iteration of untar's loop: nothing; "next", the
\* stream is cut or damaged where tarReader.Next reads (line 301; before the
\* first entry, also where gzip.NewReader reads, line 292); "mkdir",
\* os.MkdirAll fails (312, 316); "create", os.Create fails (320); "copy", the
\* stream is cut inside the file's content (325).  "holes" is no error: the
\* copy has ended, and another thread that emptied the file meanwhile has
\* not yet written again what was lost.
StreamFaults == {"none", "next", "copy"}
LoopFaults == {"none", "next", "mkdir", "create", "copy"}

\* the faults that the call `at` of an iteration (next, mkdir, create or
\* copy) can meet
FaultsAt(at) == {"none", at}

UntarErr(why) == Err("untar", why, <<>>)

\* lines 300-329: one call of iteration k of the loop, tarReader.Next,
\* os.MkdirAll, os.Create or io.Copy to its end.  The result tells the file
\* system, the error, the iteration and the call that come next, whether
\* the loop goes on (it ends on an error, and on io.EOF after the last
\* entry) and the paths created or written.  A file is empty from os.Create
\* on and holds part of its content until io.Copy has ended.
untarCall(files, target, archive, k, at, fault) ==
    LET stop(f, why, w) == [fs |-> f, err |-> UntarErr(why), k |-> k, at |-> at,
                            more |-> FALSE, written |-> w]
        goes(f, k2, at2, w) == [fs |-> f, err |-> NoErr, k |-> k2, at |-> at2,
                                more |-> TRUE, written |-> w]
    IN IF at = "next"
       THEN IF fault = "next" THEN stop(files, "unexpected EOF", {})
            ELSE IF k > Len(archive)
            THEN [fs |-> files, err |-> NoErr, k |-> k, at |-> at, more |-> FALSE,
                  written |-> {}]
            ELSE IF archive[k].type \in {"dir", "reg"} THEN goes(files, k, "mkdir", {})
            ELSE goes(files, k + 1, "next", {})
       ELSE
       LET header == archive[k]
           path == Join(target, header.name)
           dir == IF header.type = "dir" THEN path ELSE Dir(path)
       IN CASE at = "mkdir" ->
                 IF fault = "mkdir" THEN stop(files, "mkdir", {})
                 ELSE IF header.type = "dir"
                 THEN goes(MkdirAll(files, dir), k + 1, "next",
                           DOMAIN MkdirAll(files, dir) \ DOMAIN files)
                 ELSE goes(MkdirAll(files, dir), k, "create",
                           DOMAIN MkdirAll(files, dir) \ DOMAIN files)
            [] at = "create" ->
                 IF fault = "create" THEN stop(files, "create", {})
                 ELSE goes(Create(files, path, "partial"), k, "copy", {path})
            [] OTHER ->
                 IF fault = "copy" THEN stop(files, "unexpected EOF", {path})
                 ELSE IF fault = "holes" THEN goes(files, k + 1, "next", {path})
                 ELSE goes(Create(files, path, "file"), k + 1, "next", {path})

\* untar: the calls in order, those of iteration k meeting faults[k], until
\* one of them ends the loop
RECURSIVE untarFrom(_, _, _, _, _, _)
untarFrom(files, archive, target, faults, k, at) ==
    LET n == untarCall(files, target, archive, k, at, faults[k])
    IN IF n.more THEN untarFrom(n.fs, archive, target, faults, n.k, n.at)
       ELSE [fs |-> n.fs, err |-> n.err]

untar(files, archive, target, faults) ==
    untarFrom(files, archive, target, faults, 1, "next")

\* a stream that arrives whole, on a file system that takes every write
NoFaults(archive) == [k \in 1..(Len(archive) + 1) |-> "none"]

\* the answers of the server (or of the transport) to the GET
Responses ==
    { [code |-> 0, status |-> "transport error"],
      [code |-> 200, status |-> "200 OK"],
      [code |-> 404, status |-> "404 Not Found"],
      [code |-> 500, status |-> "500 Internal Server Error"] }

NoPath == <<>>

\* line 270
BadStatusOnlyServerErrors(code) == code >= 500

BadStatus(code) == code < 200 \/ code > 299

\* lines 262-272: the GET and the test of its status; with no error the body
\* goes to untar, whose target is cacheDir
downloadFromGcs(model, cacheDir, response) ==
    IF response.code = 0
    THEN [err |-> Err("download", response.status, <<>>), target |-> NoPath]
    ELSE IF BadStatus(response.code)
    THEN [err |-> Err("download", "model download failed: " \o response.status, <<>>),
          target |-> NoPath]
    ELSE [err |-> NoErr, target |-> cacheDir]

\* os.Stat: the error of the file system if it has one for this call (a
\* directory on the way that may not be searched), else whether the path exists
StatFaults == {"none", "EACCES"}

Stat(files, path, fault) ==
    IF fault # "none" THEN fault
    ELSE IF path \in DOMAIN files THEN "ok" ELSE "ErrNotExist"

\* lines 254-259: the test of line 255; on a hit the path is returned, else
\* downloadFromGcs is called
retrieveModelNoCheck(files, model, cacheDir, fault) ==
    [stat |-> Stat(files, Join(cacheDir, <<model>>), fault), hit |-> FALSE,
     path |-> NoPath]

retrieveModel(files, model, cacheDir, fault) ==
    LET stat == Stat(files, Join(cacheDir, <<model>>), fault)
    IN IF stat # "ErrNotExist"
       THEN [stat |-> stat, hit |-> TRUE, path |-> Join(cacheDir, <<model>>)]
       ELSE [stat |-> stat, hit |-> FALSE, path |-> NoPath]

(***************************************************************************)
(* NewFlagEmbedding and Destroy.                                           *)
(***************************************************************************)
NoResponse == [code |-> 0 - 1, status |-> ""]
\* a NewFlagEmbedding call of a thread: where it stands, its options, and of
\* its retrieveModel call what os.Stat answered (and the fault of the file
\* system behind that), whether the directory was there, the GET and its
\* answer, the archive in the body and untar's position in it (the entry and
\* the call), whether another thread has emptied the file it is copying,
\* whether anything was written, and the path returned
NoCtor == [pc |-> "idle", model |-> "", cacheDir |-> <<>>, maxLength |-> 0,
           fault |-> "none", stat |-> "none", existed |-> FALSE, net |-> FALSE,
           response |-> NoResponse, archive |-> <<>>, k |-> 0, at |-> "next",
           clobbered |-> FALSE, wrote |-> FALSE, path |-> NoPath]
\* a retrieveModel call for the record: its arguments, what it returned,
\* whether the directory existed when it began and what os.Stat answered,
\* whether it sent a GET and the answer, and whether it created anything
NoLast == [model |-> "", cacheDir |-> <<>>, path |-> NoPath, err |-> NoErr,
           existed |-> FALSE, stat |-> "none", net |-> FALSE, response |-> NoResponse,
           wrote |-> FALSE]

\* what a caller puts in InitOptions.Model and InitOptions.CacheDir
OptionModels == {"", BGESmallEN}
OptionCacheDirs == {<<>>, DefaultCacheDir}

\* a thread is inside Embed or PassageEmbed, or inside QueryEmbed
Busy(t) == (pc # "idle" /\ op.caller = t) \/ queryCall[t].pc # "idle"

\* lines 55-76: the defaults, and the test !ort.IsInitialized()
NewCall(t) ==
    /\ proc = "running"
    /\ ctor[t].pc = "idle"
    /\ ~Busy(t)
    /\ \E model \in OptionModels, cacheDir \in OptionCacheDirs :
         ctor' = [ctor EXCEPT ![t] =
                    [NoCtor EXCEPT
                       !.pc = IF ~ortEnv THEN "init" ELSE "retrieve",
                       !.model = IF model = "" THEN BGESmallEN ELSE model,
                       !.cacheDir = IF cacheDir = <<>> THEN DefaultCacheDir ELSE cacheDir,
                       !.maxLength = MaxLength]]
    /\ ret' = NoRet
    /\ io' = {}
    /\ ResetEmbed
    /\ queryCall' = [queryCall EXCEPT ![t] = NoQuery]
    /\ UNCHANGED <<proc, worldVars, inst>>

\* lines 77-81: ort.InitializeEnvironment() builds the environment
NewInitEnv(t) ==
    /\ proc = "running"
    /\ ctor[t].pc = "init"
    /\ ~ortEnv
    /\ ortEnv' = TRUE
    /\ envInits' = envInits + 1
    /\ ctor' = [ctor EXCEPT ![t].pc = "retrieve"]
    /\ UNCHANGED <<queryCall, proc, fs, last, prev, oracle, workload, inst, embedVars, io, ret>>

\* lines 77-80: ort.InitializeEnvironment() fails (no shared library, or an
\* environment that another thread built since the test of line 76), and
\* NewFlagEmbedding returns the error
NewInitEnvFails(t) ==
    /\ proc = "running"
    /\ ctor[t].pc = "init"
    /\ ret' = [op |-> "NewFlagEmbedding", out |-> NilSlice,
               err |-> Err("InitializeEnvironment",
                           IF ortEnv THEN "already initialized" ELSE "no library", <<>>)]
    /\ io' = {}
    /\ ctor' = [ctor EXCEPT ![t] = NoCtor]
    /\ UNCHANGED <<queryCall, proc, worldVars, inst, embedVars>>

\* lines 77-81 unsynchronized with another thread's: both tests of the
\* environment passed before either thread built it, and it is built again
NewInitEnvAgain(t) ==
    /\ proc = "running"
    /\ ctor[t].pc = "init"
    /\ ortEnv
    /\ envInits' = envInits + 1
    /\ ctor' = [ctor EXCEPT ![t].pc = "retrieve"]
    /\ UNCHANGED <<queryCall, proc, ortEnv, fs, last, prev, oracle, workload, inst, embedVars, io, ret>>

\* the record of a retrieveModel call that returns path and err
Retrieved(c, path, err) ==
    [model |-> c.model, cacheDir |-> c.cacheDir, path |-> path, err |-> err,
     existed |-> c.existed, stat |-> c.stat, net |-> c.net, response |-> c.response,
     wrote |-> c.wrote]

\* NewFlagEmbedding returns an error (lines 85, 91)
NewFails(t, err) ==
    /\ ret' = [op |-> "NewFlagEmbedding", out |-> NilSlice, err |-> err]
    /\ ctor' = [ctor EXCEPT ![t] = NoCtor]

\* lines 83, 255-257: retrieveModel tests the directory with os.Stat, under
\* one of the given faults of the file system, and returns its path on a hit
NewRetrieve(t, faults) ==
    /\ proc = "running"
    /\ ctor[t].pc = "retrieve"
    /\ \E fault \in faults :
         LET c == ctor[t]
             r == retrieveModel(fs, c.model, c.cacheDir, fault)
             seen == [c EXCEPT !.fault = fault, !.stat = r.stat, !.path = r.path,
                               !.existed = (Join(c.cacheDir, <<c.model>>) \in DOMAIN fs)]
         IN /\ io' = io \cup {<<"stat", Join(c.cacheDir, <<c.model>>)>>}
            /\ IF r.hit
               THEN /\ ctor' = [ctor EXCEPT ![t] = [seen EXCEPT !.pc = "tokenizer"]]
                    /\ last' = Retrieved(seen, r.path, NoErr)
                    /\ prev' = last
               ELSE /\ ctor' = [ctor EXCEPT ![t] = [seen EXCEPT !.pc = "download"]]
                    /\ UNCHANGED <<last, prev>>
    /\ UNCHANGED <<queryCall, proc, ortEnv, envInits, fs, oracle, workload, inst, embedVars, ret>>

\* lines 258, 262-272: the GET, answered by one of the Responses; a 2xx
\* answer carries one of the given archives
NewDownload(t, archives) ==
    /\ proc = "running"
    /\ ctor[t].pc = "download"
    /\ \E response \in Responses, archive \in archives :
         LET c == ctor[t]
             d == downloadFromGcs(c.model, c.cacheDir, response)
             got == [c EXCEPT !.net = TRUE, !.response = response]
         IN /\ io' = io \cup {<<"net", <<c.model>>>>}
            /\ IF d.err # NoErr
               THEN /\ NewFails(t, d.err)
                    /\ last' = Retrieved(got, NoPath, d.err)
                    /\ prev' = last
               ELSE /\ ctor' = [ctor EXCEPT ![t] =
                                  [got EXCEPT !.pc = "untar", !.archive = archive, !.k = 1]]
                    /\ UNCHANGED <<last, prev, ret>>
    /\ UNCHANGED <<queryCall, proc, ortEnv, envInits, fs, oracle, workload, inst, embedVars>>

\* the file that the thread's untar has created and is copying, if any
Copying(c) ==
    IF c.pc = "untar" /\ c.at = "copy"
    THEN {Join(c.cacheDir, c.archive[c.k].name)} ELSE {}

\* lines 274-288, 300-329: one call of untar's loop into cacheDir, under one
\* of the given faults; on io.EOF after the last entry untar returns nil and
\* retrieveModel returns cacheDir/model.  An os.Create empties the file
\* under another thread that is copying it, until a copy of it has ended.
NewUntar(t, faults) ==
    /\ proc = "running"
    /\ ctor[t].pc = "untar"
    /\ \E fault \in (faults \cap FaultsAt(ctor[t].at))
                     \cup (IF ctor[t].at = "copy" /\ ctor[t].clobbered
                           THEN {"holes"} ELSE {}) :
         LET c == ctor[t]
             n == untarCall(fs, c.cacheDir, c.archive, c.k, c.at, fault)
             now == [c EXCEPT !.wrote = (c.wrote \/ n.written # {}),
                              !.clobbered = FALSE]
             created == IF c.at = "create" /\ n.err = NoErr THEN n.written ELSE {}
             copied == IF c.at = "copy" /\ n.err = NoErr /\ fault = "none"
                       THEN n.written ELSE {}
             others(mine) ==
                 [u \in Threads |->
                    IF u = t THEN mine
                    ELSE IF Copying(ctor[u]) \cap created # {}
                    THEN [ctor[u] EXCEPT !.clobbered = TRUE]
                    ELSE IF Copying(ctor[u]) \cap copied # {}
                    THEN [ctor[u] EXCEPT !.clobbered = FALSE]
                    ELSE ctor[u]]
         IN /\ fs' = n.fs
            /\ io' = io \cup {<<"write", f>> : f \in n.written}
            /\ IF n.err # NoErr
               THEN /\ ret' = [op |-> "NewFlagEmbedding", out |-> NilSlice, err |-> n.err]
                    /\ ctor' = others(NoCtor)
                    /\ last' = Retrieved(now, NoPath, n.err)
                    /\ prev' = last
               ELSE IF n.more
               THEN /\ ctor' = others([now EXCEPT !.k = n.k, !.at = n.at])
                    /\ UNCHANGED <<last, prev, ret>>
               ELSE /\ ctor' = others([now EXCEPT !.pc = "tokenizer",
                                                  !.path = Join(c.cacheDir, <<c.model>>)])
                    /\ last' = Retrieved(now, Join(c.cacheDir, <<c.model>>), NoErr)
                    /\ prev' = last
                    /\ UNCHANGED ret
    /\ UNCHANGED <<queryCall, proc, ortEnv, envInits, oracle, workload, inst, embedVars>>

\* pretrained.FromFile: the file is read whole and parsed
TokenizerError(files, modelPath, fault) ==
    LET file == Join(modelPath, <<TokenizerFile>>)
    IN IF fault # "none" THEN Err("tokenizer", fault, <<>>)
       ELSE IF file \notin DOMAIN files THEN Err("tokenizer", "no such file", <<>>)
       ELSE IF files[file] # "file" THEN Err("tokenizer", "not a tokenizer file", <<>>)
       ELSE NoErr

\* lines 88-117: the tokenizer is loaded from modelPath, and the instance
\* is returned
NewTokenizer(t) ==
    /\ proc = "running"
    /\ ctor[t].pc = "tokenizer"
    /\ LET c == ctor[t]
           e == TokenizerError(fs, c.path, c.fault)
       IN /\ io' = io \cup {<<"read", Join(c.path, <<TokenizerFile>>)>>}
          /\ ret' = [op |-> "NewFlagEmbedding", out |-> NilSlice, err |-> e]
          /\ inst' = IF e # NoErr THEN inst
                     ELSE [inst EXCEPT ![t] =
                             [model |-> c.model, maxLength |-> c.maxLength,
                              modelPath |-> c.path]]
    /\ ctor' = [ctor EXCEPT ![t] = NoCtor]
    /\ UNCHANGED <<queryCall, proc, ortEnv, envInits, fs, last, prev, oracle, workload, embedVars>>

\* ort.DestroyEnvironment(): the process has one environment, and it is gone
DestroyEnvironmentKept(env) == env

DestroyEnvironment(env) == FALSE

\* a QueryEmbed call after the environment has been destroyed: a session it
\* has created and not yet run has lost its environment
Orphaned(q) == IF q.pc = "run" THEN [q EXCEPT !.orphan = TRUE] ELSE q

\* lines 122-124
Destroy(t) ==
    /\ proc = "running"
    /\ inst[t] # NoInst
    /\ ctor[t].pc = "idle"
    /\ ~Busy(t)
    /\ ortEnv' = DestroyEnvironment(ortEnv)
    /\ envInits' = 0
    /\ ret' = [op |-> "Destroy", out |-> NilSlice, err |-> NoErr]
    /\ io' = {}
    /\ ResetEmbed
    /\ queryCall' = [u \in Threads |->
                       IF u = t THEN NoQuery
                       ELSE IF ortEnv # ortEnv' THEN Orphaned(queryCall[u])
                       ELSE queryCall[u]]
    /\ UNCHANGED <<proc, fs, last, prev, oracle, workload, ctor, inst>>

(***************************************************************************)
(* Specifications.                                                         *)
(***************************************************************************)
NoFault == [bad |-> "", stage |-> "none"]
Oracles == {NoFault} \cup {[bad |-> "b", stage |-> s] : s \in StageSet}

\* the process starts: no environment, an empty cache directory
InitStartWith(w) ==
    /\ ortEnv = FALSE
    /\ envInits = 0
    /\ fs = NoFiles
    /\ ctor = [t \in Threads |-> NoCtor]
    /\ inst = [t \in Threads |-> NoInst]
    /\ last = NoLast
    /\ prev = NoLast
    /\ oracle \in Oracles
    /\ workload = w
    /\ pc = "idle"
    /\ op = NoOp
    /\ i = 0
    /\ tasks = NoTasks
    /\ embeddings = <<>>
    /\ errorCh = <<>>
    /\ wg = 0
    /\ overtook = FALSE
    /\ io = {}
    /\ ret = NoRet
    /\ queryCall = [t \in Threads |-> NoQuery]
    /\ proc = "running"

InitStart == InitStartWith(MaxInputs)

\* thread 1 has constructed an instance of a model on a cold cache
ModelPathOf(model) == Join(DefaultCacheDir, <<model>>)
ConstructedOf(model) ==
    [model |-> model, maxLength |-> MaxLength, modelPath |-> ModelPathOf(model)]

\* the default model's
ModelPath == ModelPathOf(BGESmallEN)
Constructed == ConstructedOf(BGESmallEN)

InitModel(model, w) ==
    /\ ortEnv = TRUE
    /\ envInits = 1
    /\ fs = untar(NoFiles, GoodArchive(model), DefaultCacheDir,
                  NoFaults(GoodArchive(model))).fs
    /\ ctor = [t \in Threads |-> NoCtor]
    /\ inst = [t \in Threads |-> IF t = 1 THEN ConstructedOf(model) ELSE NoInst]
    /\ last = [model |-> model, cacheDir |-> DefaultCacheDir, path |-> ModelPathOf(model),
               err |-> NoErr, existed |-> FALSE, stat |-> "ErrNotExist", net |-> TRUE,
               response |-> [code |-> 200, status |-> "200 OK"], wrote |-> TRUE]
    /\ prev = NoLast
    /\ oracle \in Oracles
    /\ workload = w
    /\ pc = "idle"
    /\ op = NoOp
    /\ i = 0
    /\ tasks = NoTasks
    /\ embeddings = <<>>
    /\ errorCh = <<>>
    /\ wg = 0
    /\ overtook = FALSE
    /\ io = {<<"stat", ModelPathOf(model)>>, <<"net", <<model>>>>,
             <<"read", Join(ModelPathOf(model), <<TokenizerFile>>)>>}
            \cup {<<"write", f>> :
                    f \in DOMAIN untar(NoFiles, GoodArchive(model), DefaultCacheDir,
                                       NoFaults(GoodArchive(model))).fs}
    /\ ret = [op |-> "NewFlagEmbedding", out |-> NilSlice, err |-> NoErr]
    /\ queryCall = [t \in Threads |-> NoQuery]
    /\ proc = "running"

InitConstructed(w) == InitModel(BGESmallEN, w)

Init == InitConstructed(MaxInputs)

\* thread 1 has constructed an instance of any of the three models
InitModels == \E model \in Models : InitModel(model, MaxInputs)

\* the embedding operations of one client thread on its instance
Next ==
    \/ EmbedCall(1)
    \/ PassageEmbedCall(1)
    \/ QueryEmbed(1)
    \/ QueryStage(1)
    \/ EmbedLaunch
    \/ EmbedLoopExit
    \/ \E c \in DOMAIN tasks : TaskRun(c)
    \/ \E c \in DOMAIN tasks : TaskSend(c)
    \/ \E c \in DOMAIN tasks : TaskCopy(c)
    \/ EmbedReturn

Spec == Init /\ [][Next]_vars

\* the same operations on an instance of any model
SpecModels == InitModels /\ [][Next]_vars

\* one client thread: construction, teardown and single-text embedding
NextCache ==
    \/ NewCall(1)
    \/ NewInitEnv(1)
    \/ NewInitEnvFails(1)
    \/ NewRetrieve(1, {"none"})
    \/ NewDownload(1, {GoodArchive(ctor[1].model)})
    \/ NewUntar(1, StreamFaults)
    \/ NewTokenizer(1)
    \/ Destroy(1)
    \/ QueryEmbed(1)
    \/ QueryStage(1)

SpecCache == InitStart /\ [][NextCache]_vars

(***************************************************************************)
(* Properties of Embed.                                                    *)
(***************************************************************************)
EmbedOps == {"Embed", "PassageEmbed"}
EmbedReturned == pc = "idle" /\ ret.op \in EmbedOps
Failed == {c \in DOMAIN tasks : tasks[c].err # NoErr}

\* the pipeline on the one-element list of a text
Single(text) == onnxEmbed(inst[op.caller], <<text>>, World)

\* C1: when Embed succeeds, the result has one vector per input and the
\* vector at each index is the embedding of the input string at that index,
\* whatever the order in which the goroutines ran and finished.
C1_OrderPreserved ==
    (EmbedReturned /\ ret.err = NoErr) =>
        /\ Len(ret.out) = Len(op.input)
        /\ \A j \in 1..Len(op.input) :
             /\ Single(op.input[j]).err = NoErr
             /\ ret.out[j] = Single(op.input[j]).out[1]

\* three chunks holding different texts, finished out of their order
C1_Witness ==
    /\ EmbedReturned /\ ret.err = NoErr /\ ret.op = "Embed"
    /\ Cardinality(DOMAIN tasks) = 3
    /\ op.input[1] # op.input[3]
    /\ overtook

\* C2: Embed returns an error exactly when a chunk failed; the error is the
\* one that was first on the error channel, an error of a failing chunk, and
\* no vector is returned with it; with no failing chunk every vector is
\* returned and no error.
C2_NoLostErrors ==
    EmbedReturned =>
        /\ (ret.err # NoErr) <=> (Failed # {})
        /\ Failed # {} =>
             /\ ret.out = NilSlice
             /\ \E c \in Failed : tasks[c].sentAt = 1 /\ ret.err = tasks[c].err
        /\ Failed = {} =>
             /\ ret.out = embeddings
             /\ Len(ret.out) = Len(op.input)
             /\ \A j \in 1..Len(ret.out) : ret.out[j] # NilSlice

\* two chunks failed, the later one first on the channel; a third chunk
\* succeeded and its vector is in the container, and nothing is returned
C2_Witness ==
    /\ EmbedReturned /\ ret.err # NoErr /\ ret.out = NilSlice
    /\ \E c, d \in Failed : c < d /\ tasks[d].sentAt = 1 /\ tasks[c].sentAt = 2
    /\ \E c \in DOMAIN tasks : tasks[c].err = NoErr /\ embeddings[c + 1] # NilSlice

\* C6: the chunks of Embed are contiguous and of size chunkSize, 512 for a
\* batch size of zero or less; ceil(n / chunkSize) goroutines are launched,
\* none for an empty list, which returns an empty result and no error; every
\* chunk but the last has chunkSize elements, the last between 1 and chunkSize.
C6_ChunkPartition ==
    EmbedReturned =>
        LET n == Len(op.input)
            chunkSize == IF op.batchSize <= 0 THEN 512 ELSE op.batchSize
            count == (n + chunkSize - 1) \div chunkSize
        IN /\ Cardinality(DOMAIN tasks) = count
           /\ DOMAIN tasks = {k * chunkSize : k \in 0..(count - 1)}
           /\ \A c \in DOMAIN tasks :
                /\ tasks[c].end - c >= 1
                /\ tasks[c].end - c <= chunkSize
                /\ tasks[c].end # n => tasks[c].end - c = chunkSize
                /\ tasks[c].end # n => tasks[c].end \in DOMAIN tasks
           /\ n > 0 => \E c \in DOMAIN tasks : tasks[c].end = n
           /\ n = 0 => ret.out = <<>> /\ ret.err = NoErr

\* the default batch size splits a list of 513 in chunks of 512 and 1
C6_Witness ==
    /\ EmbedReturned /\ op.batchSize <= 0
    /\ Len(op.input) = 513
    /\ DOMAIN tasks = {0, 512}
    /\ tasks[0].end = 512 /\ tasks[512].end = 513

\* C9: the outcome of Embed on the one-element list of "query: " + text, for
\* any batch size, is the outcome of QueryEmbed(text): the same error, or the
\* vector of QueryEmbed as element 0.
C9_QueryIsBatchOfOne ==
    \A text \in Texts :
        (EmbedReturned /\ ret.op = "Embed" /\ op.input = <<QueryPrefix \o text>>) =>
            LET q == QueryEmbedResult(inst[op.caller], text, World)
            IN /\ ret.err = q.err
               /\ q.err = NoErr => (Len(ret.out) = 1 /\ ret.out[1] = q.out)
               /\ q.err # NoErr => ret.out = NilSlice

C9_Witness ==
    /\ EmbedReturned /\ ret.op = "Embed" /\ op.input = <<QueryPrefix \o <<"b">>>>
    /\ op.batchSize = 2
    /\ ret.err = NoErr
    /\ ret.out[1] = QueryEmbedResult(inst[op.caller], <<"b">>, World).out

\* C10: PassageEmbed hands Embed the list of "passage: " + input[i], of the
\* same length and order, with the same batch size, and returns its result:
\* on success the embedding of "passage: " + input[i] at every index, on
\* failure the error of one of that list's chunks; the caller's list is as
\* it was.
C10_PassageDelegates ==
    op.name = "PassageEmbed" =>
        LET n == Len(op.original)
            prefixed == [j \in 1..n |-> PassagePrefix \o op.original[j]]
        IN /\ op.input = prefixed
           /\ op.callerInput = op.original
           /\ op.chunkSize = ChunkSize(op.batchSize)
           /\ (EmbedReturned /\ ret.err = NoErr) =>
                /\ Len(ret.out) = n
                /\ \A j \in 1..n : ret.out[j] = Single(prefixed[j]).out[1]
           /\ (EmbedReturned /\ ret.err # NoErr) =>
                \E c \in 0..(n - 1) :
                    ret.err = onnxEmbed(inst[op.caller],
                                        Slice(prefixed, c, ChunkEnd(c, op.chunkSize, n)),
                                        World).err

C10_Witness ==
    /\ EmbedReturned /\ ret.op = "PassageEmbed" /\ ret.err = NoErr
    /\ op.original = << <<"a">>, <<"b">>, <<"a">> >>
    /\ op.batchSize = 2
    /\ ret.out[2] = Single(PassagePrefix \o <<"b">>).out[1]
    /\ ret.out[2] # Single(<<"b">>).out[1]

\* one client thread: the whole API
NextProg ==
    \/ NextCache
    \/ Next

\* the whole API under a client program that embeds short lists only
ProgInputs == 1
InitProg == InitStartWith(ProgInputs)

SpecProg == InitProg /\ [][NextProg]_vars

\* two client threads: construction, teardown and single-text embedding
NextLife ==
    \E t \in Threads :
        \/ NewCall(t)
        \/ NewInitEnv(t)
        \/ NewInitEnvFails(t)
        \/ NewInitEnvAgain(t)
        \/ NewRetrieve(t, {"none"})
        \/ NewDownload(t, {GoodArchive(ctor[t].model)})
        \/ NewUntar(t, StreamFaults)
        \/ NewTokenizer(t)
        \/ Destroy(t)
        \/ QueryEmbed(t)
        \/ QueryStage(t)

\* the process starts with an engine that rejects no input, or one that
\* rejects the text "b" when the session is run
LifeOracles == {NoFault, [bad |-> "b", stage |-> "run"]}
InitLife == InitStart /\ oracle \in LifeOracles

SpecLife == InitLife /\ [][NextLife]_vars

(***************************************************************************)
(* Properties of the artifact cache.                                       *)
(***************************************************************************)
\* the directory a retrieveModel call looks for
DirOf(r) == Join(r.cacheDir, <<r.model>>)

\* the tokenizer configuration and the model weights are under the path
Complete(files, path) ==
    \A name \in {TokenizerFile, ModelFile} :
        /\ Join(path, <<name>>) \in DOMAIN files
        /\ files[Join(path, <<name>>)] = "file"

\* the latest two retrieveModel calls had the same model and cache directory
Twice == prev # NoLast /\ prev.model = last.model /\ prev.cacheDir = last.cacheDir

RefusedStatus(r) ==
    r.net /\ r.response.code # 0 /\ (r.response.code < 200 \/ r.response.code > 299)

\* C3 as stated: whatever the first resolution's outcome, the second sends
\* no GET and returns the path the first returned.
C3_SecondNeverDownloads ==
    Twice => (~last.net /\ last.path = prev.path)

\* C3: when the first resolution left the directory cacheDir/model in place,
\* the second sends no GET, so that the two send at most one, and returns
\* cacheDir/model, the path of the first if that one succeeded; when the
\* first left no directory and os.Stat reports that, the second sends the
\* GET again.
C3_CacheIdempotent ==
    Twice =>
        /\ last.existed =>
             /\ ~last.net
             /\ last.err = NoErr
             /\ last.path = DirOf(last)
             /\ prev.err = NoErr => last.path = prev.path
        /\ (~last.existed /\ last.stat = "ErrNotExist") => last.net

\* a download, then a cache hit on what it extracted
C3_Witness ==
    /\ Twice
    /\ prev.net /\ prev.err = NoErr /\ prev.wrote
    /\ last.existed /\ ~last.net /\ last.path = prev.path /\ last.err = NoErr

\* C4: a path that retrieveModel returns holds the complete set of model
\* files, and a directory that a failed extraction left partly filled is not
\* returned as a cache hit.
C4_CacheComplete ==
    /\ (last # NoLast /\ last.err = NoErr) => Complete(fs, last.path)
    /\ (Twice /\ prev.err # NoErr /\ prev.wrote) => ~(last.existed /\ last.err = NoErr)

\* C5: a GET answered with a status outside 200..299 makes the resolution
\* fail with an error that holds the status text; nothing was created, the
\* directory is still absent, and a retry finds it absent and, os.Stat
\* reporting that, sends the GET again.
C5_FailedDownload ==
    /\ RefusedStatus(last) =>
         /\ last.err = Err("download", "model download failed: " \o last.response.status, <<>>)
         /\ last.path = NoPath
         /\ ~last.wrote
    /\ (RefusedStatus(last) /\ ret.op = "NewFlagEmbedding") =>
         /\ ret.err = last.err
         /\ Stat(fs, DirOf(last), "none") = "ErrNotExist"
    /\ (Twice /\ RefusedStatus(prev)) =>
         (~last.existed /\ (last.stat = "ErrNotExist" => last.net))

\* a 404, and the retry that found no directory and sent the GET again
C5_Witness ==
    /\ Twice
    /\ prev.response.code = 404
    /\ prev.err.why = "model download failed: 404 Not Found"
    /\ ~last.existed /\ last.net /\ last.err = NoErr

(***************************************************************************)
(* Properties of the whole API.                                            *)
(***************************************************************************)
EmbedFamily == {"Embed", "PassageEmbed", "QueryEmbed"}
Fetched == \E a \in io : a[1] = "net"

\* the goroutine's onnxEmbed call got as far as creating its session
ReachedSession(c) == tasks[c].pc # "start" /\ Len(tasks[c].res[1]) >= 4

\* C7 as stated: Embed, QueryEmbed and PassageEmbed perform no network
\* request and no file access; a construction sends a GET only when the
\* model's directory was absent.
C7_NoAccessAfterConstruction ==
    /\ op.name \in EmbedFamily => io = {}
    /\ (ret.op = "NewFlagEmbedding" /\ Fetched) => ~last.existed

\* C7: Embed, QueryEmbed and PassageEmbed perform no network request; the one
\* file they access is model_optimized.onnx under the instance's model path,
\* read by every chunk inference that gets as far as creating its session; a
\* construction sends a GET only when the model's directory was absent.
C7_NoNetworkAfterConstruction ==
    /\ op.name \in EmbedFamily =>
         io \subseteq {<<"read", Join(inst[op.caller].modelPath, <<ModelFile>>)>>}
    /\ op.name \in EmbedOps =>
         ((io # {}) <=> (\E c \in DOMAIN tasks : ReachedSession(c)))
    /\ ret.op = "QueryEmbed" =>
         ((io # {}) <=> (ret.err.stage \in {"none", "session", "run"}))
    /\ (ret.op = "NewFlagEmbedding" /\ Fetched) => ~last.existed

\* an instance constructed on a warm cache without a GET, and a PassageEmbed
\* on it that read the model file
C7_Witness ==
    /\ last.existed /\ ~last.net
    /\ EmbedReturned /\ op.name = "PassageEmbed" /\ ret.err = NoErr
    /\ Len(op.input) = 1
    /\ io = {<<"read", Join(inst[1].modelPath, <<ModelFile>>)>>}

\* C8: between teardowns the environment is built at most once, and no
\* construction fails because the environment exists already.
C8_InitOnce ==
    /\ envInits <= 1
    /\ ~(ret.op = "NewFlagEmbedding" /\ ret.err.why = "already initialized")

(***************************************************************************)
(* Properties of the scheduler's join.                                     *)
(***************************************************************************)
\* the chunk starts of the call in progress
ChunkStarts ==
    {c \in 0..(Len(op.input) - 1) : c % op.chunkSize = 0}

\* C11: the step in which Embed returns is taken only when every chunk of
\* the input has been launched and every launched goroutine has called
\* onnxEmbed on its chunk, sent its error if it had one, copied and
\* finished: a failed chunk neither cancels nor skips another, and the
\* error channel is read only then.
C11_WaitAll ==
    [][(pc = "wait" /\ pc' = "idle") =>
          /\ DOMAIN tasks = ChunkStarts
          /\ \A c \in DOMAIN tasks :
                /\ tasks[c].pc = "done"
                /\ tasks[c].end = ChunkEnd(c, op.chunkSize, Len(op.input))
                /\ tasks[c].err # NoErr => tasks[c].sentAt > 0
                /\ tasks[c].err = NoErr =>
                     \A j \in (c + 1)..tasks[c].end : embeddings[j] # NilSlice
          /\ Len(errorCh) = Cardinality(Failed)
          /\ ret'.err = (IF errorCh = <<>> THEN NoErr ELSE Head(errorCh))]_vars

\* the last chunk failed and finished first; the first chunk ran after that,
\* succeeded and copied its vector before Embed returned the error
C11_Witness ==
    /\ EmbedReturned /\ ret.err # NoErr
    /\ Cardinality(DOMAIN tasks) = 2
    /\ \E c \in DOMAIN tasks : c > 0 /\ Failed = {c}
    /\ overtook
    /\ tasks[0].pc = "done" /\ embeddings[1] # NilSlice

\* the index range [c, end) of a goroutine that has computed its end
OwnRange(c) == (c + 1)..tasks[c].end

\* C12: the index ranges of the goroutines of one Embed are pairwise
\* disjoint and, once all are launched and have computed their end, cover
\* the whole input; a goroutine assigns slots of the container inside its
\* own range only, no slot is assigned by two goroutines, and when Embed
\* succeeds every slot has been assigned by exactly one.
C12_DisjointWriters ==
    op.name \in EmbedOps =>
        LET ran == {c \in DOMAIN tasks : tasks[c].pc # "start"}
        IN /\ \A c, d \in ran : c # d => OwnRange(c) \cap OwnRange(d) = {}
           /\ \A c \in DOMAIN tasks : tasks[c].wrote \subseteq OwnRange(c)
           /\ \A c, d \in DOMAIN tasks : c # d => tasks[c].wrote \cap tasks[d].wrote = {}
           /\ (pc # "loop" /\ ran = DOMAIN tasks) =>
                UNION {OwnRange(c) : c \in ran} = 1..Len(op.input)
           /\ (EmbedReturned /\ ret.err = NoErr) =>
                \A j \in 1..Len(op.input) :
                    Cardinality({c \in DOMAIN tasks : j \in tasks[c].wrote}) = 1

\* a successful Embed of three texts in chunks of two: one goroutine assigned
\* slots 0 and 1, the other slot 2
C12_Witness ==
    /\ EmbedReturned /\ ret.err = NoErr
    /\ Len(op.input) = 3 /\ op.chunkSize = 2
    /\ DOMAIN tasks = {0, 2}
    /\ tasks[0].wrote = {1, 2}
    /\ tasks[2].wrote = {3}

\* a goroutine that is launched and has not come back from onnxEmbed
InPipeline(c) == tasks[c].pc = "start"

\* the scheduler under a fair Go runtime: the loop of Embed goes on, every
\* goroutine that can take a step is scheduled, and every call of onnxEmbed
\* returns, so that no goroutine stays in its call for ever
Fairness ==
    /\ WF_vars(EmbedLaunch)
    /\ WF_vars(EmbedLoopExit)
    /\ []<>(\A c \in DOMAIN tasks : ~InPipeline(c))
    /\ WF_vars(\E c \in DOMAIN tasks : TaskSend(c))
    /\ WF_vars(\E c \in DOMAIN tasks : TaskCopy(c))
    /\ WF_vars(EmbedReturn)

SpecFair == Init /\ [][Next]_vars /\ Fairness

\* a goroutine that holds an error and has not sent it
Sending(c) == tasks[c].pc = "ran" /\ tasks[c].err # NoErr

\* C13: every call of Embed returns, whatever number of its chunks fail; a
\* goroutine that has an error to send always finds room on the channel,
\* which never holds more errors than there are chunks, and at most
\* len(input).
C13_EmbedTerminates ==
    /\ [](\A c \in DOMAIN tasks :
            Sending(c) => (Len(errorCh) < Len(op.input) /\ ENABLED TaskSend(c)))
    /\ [](op.name \in EmbedOps =>
            /\ Len(errorCh) <= Cardinality(DOMAIN tasks)
            /\ Cardinality(DOMAIN tasks) <= Len(op.input))
    /\ (pc = "loop") ~> EmbedReturned

\* every text of the list was a chunk of its own, so that the channel had
\* room for no more errors than there were chunks; all chunks failed, each
\* error was sent, and Embed returned
C13_Witness ==
    /\ EmbedReturned /\ ret.err # NoErr
    /\ Cardinality(DOMAIN tasks) = Len(op.input)
    /\ Len(op.input) = 3
    /\ Failed = DOMAIN tasks
    /\ \A c \in DOMAIN tasks : tasks[c].sentAt > 0 /\ tasks[c].pc = "done"

(***************************************************************************)
(* Properties of onnxEmbed.                                                *)
(***************************************************************************)
\* the tensors and the session that exist when onnxEmbed fails at a stage, or
\* succeeds, in the order of their creation
AcquiredBefore(stage) ==
    CASE stage = "tokenize" -> <<>>
      [] stage = "inputTensorID" -> <<>>
      [] stage = "inputTensorMask" -> <<"inputTensorID">>
      [] stage = "inputTensorType" -> <<"inputTensorID", "inputTensorMask">>
      [] stage = "outputTensor" -> <<"inputTensorID", "inputTensorMask", "inputTensorType">>
      [] stage = "session" ->
           <<"inputTensorID", "inputTensorMask", "inputTensorType", "outputTensor">>
      [] OTHER ->
           <<"inputTensorID", "inputTensorMask", "inputTensorType", "outputTensor",
             "session">>

Times(x, s) == Cardinality({k \in 1..Len(s) : s[k] = x})

\* every resource acquired is released once, and nothing else is released
ReleasedOnce(acquired, released) ==
    /\ Len(released) = Len(acquired)
    /\ \A k \in 1..Len(acquired) : Times(acquired[k], released) = 1
    /\ \A k \in 1..Len(released) : Times(released[k], acquired) = 1

\* C14: a call of onnxEmbed that a goroutine of Embed has made, and the call
\* QueryEmbed makes, has acquired the tensors and the session created before
\* the stage at which it failed, all five when it succeeded, and has
\* released each of them exactly once and nothing else when it returns.
C14_ScopedRelease ==
    /\ \A c \in DOMAIN tasks :
         tasks[c].pc # "start" =>
            /\ tasks[c].res[1] = AcquiredBefore(tasks[c].err.stage)
            /\ ReleasedOnce(tasks[c].res[1], tasks[c].res[2])
    /\ \A t \in Threads :
         (ret.op = "QueryEmbed" /\ op.caller = t) =>
            /\ queryCall[t].err = ret.err
            /\ queryCall[t].res[1] = AcquiredBefore(ret.err.stage)
            /\ ReleasedOnce(queryCall[t].res[1], queryCall[t].res[2])

\* a chunk whose session could not be created: the four tensors were
\* released, last created first, and no session was
C14_Witness ==
    \E c \in DOMAIN tasks :
        /\ tasks[c].pc = "done"
        /\ tasks[c].err.stage = "session"
        /\ tasks[c].res[1] = <<"inputTensorID", "inputTensorMask", "inputTensorType",
                               "outputTensor">>
        /\ tasks[c].res[2] = <<"outputTensor", "inputTensorType", "inputTensorMask",
                               "inputTensorID">>

(***************************************************************************)
(* The artifact cache with any file system and any server.                 *)
(***************************************************************************)
NextWild ==
    \/ NewCall(1)
    \/ NewInitEnv(1)
    \/ NewInitEnvFails(1)
    \/ NewRetrieve(1, StatFaults)
    \/ NewDownload(1, Archives(ctor[1].model))
    \/ NewUntar(1, LoopFaults)
    \/ NewTokenizer(1)
    \/ Destroy(1)
    \/ QueryEmbed(1)
    \/ QueryStage(1)

SpecWild == InitStart /\ [][NextWild]_vars

\* C15: when os.Stat on the model's directory fails with an error other
\* than "does not exist", retrieveModel returns that error and no path; a
\* path returned without a download is one that os.Stat found.
C15_NoSwallowedErrors ==
    last # NoLast =>
        /\ last.stat \notin {"ok", "ErrNotExist"} =>
             (last.err # NoErr /\ last.path = NoPath)
        /\ (last.err = NoErr /\ ~last.net) => last.stat = "ok"

\* path f is dir, lies under dir, or is a directory on the way to dir
Within(f, dir) ==
    \/ Len(f) <= Len(dir) /\ f = SubSeq(dir, 1, Len(f))
    \/ Len(f) > Len(dir) /\ dir = SubSeq(f, 1, Len(dir))

\* C16: everything that exists after the extractions lies inside the model's
\* directory (or is a directory on the way to it), whatever the archive held,
\* and an entry that is neither a directory nor a regular file has created
\* nothing.
C16_ExtractionInside ==
    last # NoLast =>
        /\ \A f \in DOMAIN fs : Within(f, DirOf(last))
        /\ Join(DirOf(last), <<"vocab.txt">>) \notin DOMAIN fs

(***************************************************************************)
(* Properties of the tensors.                                              *)
(***************************************************************************)
\* the chunk of a goroutine that has computed its end
ChunkOf(c) == Slice(op.input, c, tasks[c].end)

\* the chunk got past the tokenizer: its buffers were assembled
Assembled(c) == tasks[c].pc # "start" /\ tasks[c].err.stage # "tokenize"

\* C17: for a chunk of n texts that the tokenizer accepted, under maximum
\* length L, the ids, mask and type-ids buffers each come with shape [n, L]
\* and hold n * L elements, the L elements of the k-th text's encoding at
\* offsets (k-1)*L .. k*L - 1; the output tensor has shape [n, L, hiddenDim]
\* and n * L * hiddenDim elements, hiddenDim being the hidden size of the
\* instance's model; no tensor is refused for its shape.
C17_TensorShapes ==
    \A c \in DOMAIN tasks :
        Assembled(c) =>
            LET f == inst[op.caller]
                n == Len(ChunkOf(c))
                L == f.maxLength
                hiddenDim == ModelHiddenDim(f.model)
                r == onnxEmbed(f, ChunkOf(c), World)
                encodings == EncodeBatch(ChunkOf(c), L)
                flat == [ids |-> Flatten(encodings, "ids"),
                         mask |-> Flatten(encodings, "mask"),
                         typeIds |-> Flatten(encodings, "typeIds")]
            IN /\ n = tasks[c].end - c
               /\ \A b \in {"ids", "mask", "typeIds"} :
                    /\ r.shapes[b].shape = <<n, L>>
                    /\ r.shapes[b].len = n * L
                    /\ Len(flat[b]) = n * L
                    /\ \A k \in 1..n : \A j \in 1..L :
                         flat[b][(k - 1) * L + j] = Encode(ChunkOf(c)[k], L)[b][j]
               /\ r.shapes.output.shape = <<n, L, hiddenDim>>
               /\ r.shapes.output.len = n * L * hiddenDim
               /\ tasks[c].err.why # "ShapeMismatch"

(***************************************************************************)
(* Properties of the pooling.                                              *)
(***************************************************************************)
\* the hidden states the engine returned for the chunk of goroutine c
HiddenStates(c) ==
    LET encodings == EncodeBatch(ChunkOf(c), inst[op.caller].maxLength)
    IN Forward(Flatten(encodings, "ids"), Flatten(encodings, "mask"),
               Len(ChunkOf(c)), inst[op.caller].maxLength, HiddenDim)

\* C18: from a buffer of shape [n, L, H], getEmbeddings returns n vectors of
\* H elements; the k-th element of the i-th vector is the normalization of
\* the buffer's element at offset i*L*H + k by the norm of the H elements at
\* offsets i*L*H .. i*L*H + H - 1, the hidden state of the i-th text's first
\* token, and all these offsets are inside the buffer.
C18_FirstTokenPooling ==
    \A c \in DOMAIN tasks :
        (tasks[c].pc # "start" /\ tasks[c].err = NoErr) =>
            LET n == Len(ChunkOf(c))
                L == inst[op.caller].maxLength
                H == HiddenDim
                data == HiddenStates(c)
                out == tasks[c].batchOut
            IN /\ Len(data) = n * L * H
               /\ Len(out) = n
               /\ \A s \in 1..n :
                    LET first == (s - 1) * L * H
                        slice == [k \in 1..H |-> data[first + k]]
                    IN /\ first + H <= Len(data)
                       /\ Len(out[s]) = H
                       /\ \A k \in 1..H :
                            out[s][k] = <<data[first + k], SumSquares(slice)>>

\* a chunk of two texts: the second vector is made of the first token of the
\* second text, which is not what follows the first vector's slice
C18_Witness ==
    \E c \in DOMAIN tasks :
        /\ tasks[c].pc = "done" /\ tasks[c].err = NoErr
        /\ Len(ChunkOf(c)) = 2
        /\ tasks[c].batchOut[2][1][1] = HiddenStates(c)[MaxLength * HiddenDim + 1]
        /\ HiddenStates(c)[MaxLength * HiddenDim + 1] # HiddenStates(c)[HiddenDim + 1]

(***************************************************************************)
(* The engine's lifecycle over two instances whose calls follow one        *)
(* another: a call begins when no construction is in progress.             *)
(***************************************************************************)
Quiet == \A u \in Threads : ctor[u].pc = "idle" /\ queryCall[u].pc = "idle"

NextSeq ==
    \E t \in Threads :
        \/ Quiet /\ NewCall(t)
        \/ NewInitEnv(t)
        \/ NewInitEnvFails(t)
        \/ NewRetrieve(t, {"none"})
        \/ NewDownload(t, {GoodArchive(ctor[t].model)})
        \/ NewUntar(t, StreamFaults)
        \/ NewTokenizer(t)
        \/ Quiet /\ Destroy(t)
        \/ Quiet /\ QueryEmbed(t)
        \/ QueryStage(t)

SpecSeq == InitStart /\ [][NextSeq]_vars

\* C19: when NewFlagEmbedding has returned an instance the environment is
\* initialized; when Destroy has returned it is not, whichever instance was
\* destroyed and whatever instances exist; the environment goes down in a
\* Destroy only and comes up in the initialization step of a
\* NewFlagEmbedding only; an embedding on any instance while it is down
\* fails and returns no vector.
C19_SharedLifecycle ==
    /\ []((ret.op = "NewFlagEmbedding" /\ ret.err = NoErr) => ortEnv)
    /\ [](ret.op = "Destroy" => (~ortEnv /\ envInits = 0))
    /\ []((ret.op = "QueryEmbed" /\ ~ortEnv) => (ret.err # NoErr /\ ret.out = NilSlice))
    /\ []((ret.op = "QueryEmbed" /\ ret.err = NoErr) => ortEnv)
    /\ [][(ortEnv /\ ~ortEnv') => ret'.op = "Destroy"]_vars
    /\ [][(~ortEnv /\ ortEnv') =>
            \E t \in Threads : ctor[t].pc = "init" /\ ctor'[t].pc = "retrieve"]_vars

\* two instances exist and a Destroy on one of them has returned: the
\* environment is down for the other one as well
C19_Witness ==
    /\ inst[1] # NoInst /\ inst[2] # NoInst
    /\ ret.op = "Destroy"
    /\ ~ortEnv
    /\ Quiet

====
